---- MODULE Spec2Model ----
(***************************************************************************)
(* Image->PDF Telegram bot (src/bot.py, first revision, lines 1-568).      *)
(*                                                                         *)
(* State: the per-user session dictionaries (context.user_data), the       *)
(* in-memory catalog (context.bot_data["files"]), the persisted catalog    *)
(* (files.json), the conversion coroutine in flight with its locals, the   *)
(* messages the running/last handler sent to the chat, and the documents   *)
(* the platform accepted.  Python dictionaries are functions whose DOMAIN  *)
(* is the set of keys present; strings that the code slices, joins or      *)
(* normalises are sequences of one-character strings.                      *)
(***************************************************************************)
EXTENDS Integers, Sequences, FiniteSets, TLC

VARIABLES
    user_data,   \* user id -> session dict (keys "photos", "pdf_options")
    files,       \* bot_data["files"]: slug -> meta dict
    files_json,  \* the persisted catalog document on disk
    conv,        \* the convert_to_pdf coroutine in flight (pc + locals)
    out,         \* replies and documents sent by the handler now running / last run
    n_docs,      \* documents the platform has accepted (it numbers their file handles)
    arrivals,    \* per user: photos acknowledged since the session was emptied
    clock,       \* the last reading of time.time(), in seconds (a put reads it later)
    update_queue, \* Application.update_queue: updates received and not yet dispatched
    tmp,         \* the temporary directories on disk: directory -> set of file names
    image,       \* the image file ensure_image_dimensions is working on
    photo_tasks  \* photo_handler coroutines created, each with its position

vars == <<user_data, files, files_json, conv, out, n_docs, arrivals, clock, update_queue,
          tmp, image, photo_tasks>>

----------------------------------------------------------------------------
(* Configuration (src/bot.py:41-47) *)

MAX_IMAGES == 25
MAX_FILE_SIZE_BYTES == 10 * 1024 * 1024
DEFAULT_PAGE_SIZE == "AUTO"
DEFAULT_MARGIN_MM == 0
ADMINS == {"admin"}

(* Bounds of the model *)
MaxBatch == 2      \* largest session the user asks to convert
MaxConv == 1       \* conversions that reach the send step in one run
MaxMargin == 1     \* largest margin a user types
MaxQueue == 1      \* updates that wait while a conversion is suspended
MaxPuts == 2       \* conversions that reach the send step in a run of SpecPuts
MaxTasks == 2      \* photo updates whose handlers are in flight together

(* People: two ordinary users and the administrator; BOT is the bot's own
   account, the from_user of every message the bot itself posted. *)
Users == {"u1", "u2", "admin"}
BOT == "bot"
Senders == {"u1"}  \* users who send photos and session commands

----------------------------------------------------------------------------
(* Dictionaries *)

EmptyDict == [k \in {} |-> 0]
Has(d, k) == k \in DOMAIN d
Put(d, k, v) == [x \in DOMAIN d \cup {k} |-> IF x = k THEN v ELSE d[x]]
Del(d, k) == [x \in DOMAIN d \ {k} |-> d[x]]
Get(d, k, default) == IF k \in DOMAIN d THEN d[k] ELSE default

DefaultOptions == [page_size |-> DEFAULT_PAGE_SIZE, margin_mm |-> DEFAULT_MARGIN_MM]

(* A platform-declared file size: absent (None) or a number of bytes. *)
NoSize == [none |-> TRUE, n |-> 0]
Size(n) == [none |-> FALSE, n |-> n]
DeclaredSizes == {NoSize, Size(0), Size(MAX_FILE_SIZE_BYTES), Size(MAX_FILE_SIZE_BYTES + 1)}
\* `file_size and file_size > MAX_FILE_SIZE_BYTES`
TooBig(fs) == ~fs.none /\ fs.n # 0 /\ fs.n > MAX_FILE_SIZE_BYTES

Idle == [pc |-> "idle"]

\* no image file is open
NoImage == [pc |-> "none"]

(* The application is built without concurrent_updates (src/bot.py:511): an
   update is taken only when the handler of the previous one has returned. *)
Dispatch == conv = Idle

----------------------------------------------------------------------------
Init ==
    /\ user_data = [u \in Users |-> EmptyDict]
    /\ files = EmptyDict
    /\ files_json = [kind |-> "missing", doc |-> EmptyDict]
    /\ Dispatch
    /\ out = <<>>
    /\ n_docs = 0
    /\ arrivals = [u \in Users |-> 0]
    /\ clock = 0
    /\ update_queue = <<>>
    /\ tmp = EmptyDict
    /\ image = NoImage
    /\ photo_tasks = <<>>

----------------------------------------------------------------------------
(* photo_handler, src/bot.py:155-184.  The update carries the largest photo
   size's file_id and, optionally, its declared byte size. *)

\* a cap check that lets one image too many in
AtCapOffByOne(photos) == Len(photos) > MAX_IMAGES

\* src/bot.py:169
AtCap(photos) == Len(photos) >= MAX_IMAGES

\* src/bot.py:173
PhotoAppend(photos, file_id) == Append(photos, file_id)

\* a handler that, at the cap, silently replaces the newest pending image
photo_handler_overwrites(u, file_id, file_size) ==
    /\ Dispatch
    /\ LET photos == Get(user_data[u], "photos", <<>>) IN
       IF TooBig(file_size)
       THEN /\ out' = <<[to |-> u, msg |-> "too_big"]>>
            /\ UNCHANGED <<user_data, arrivals>>
       ELSE IF AtCap(photos)
       THEN /\ out' = <<[to |-> u, msg |-> "max_limit"]>>
            /\ user_data' = [user_data EXCEPT ![u] =
                                Put(@, "photos", [photos EXCEPT ![Len(photos)] = file_id])]
            /\ UNCHANGED arrivals
       ELSE LET new == PhotoAppend(photos, file_id) IN
            /\ user_data' = [user_data EXCEPT ![u] = Put(@, "photos", new)]
            /\ out' = <<[to |-> u, msg |-> "received", total |-> Len(new)]>>
            /\ arrivals' = [arrivals EXCEPT ![u] = @ + 1]
    /\ UNCHANGED <<files, files_json, conv, tmp, n_docs, clock>>

\* a handler that works on the list as it was when its update was taken,
\* as if it had yielded between the read and the write-back
photo_handler_stale(u, file_id, file_size) ==
    /\ Dispatch
    /\ LET task == CHOOSE k \in 1..Len(photo_tasks) : photo_tasks[k].file_id = file_id
           photos == photo_tasks[task].seen
       IN
       IF TooBig(file_size)
       THEN /\ out' = <<[to |-> u, msg |-> "too_big"]>>
            /\ UNCHANGED <<user_data, arrivals>>
       ELSE IF AtCap(photos)
       THEN /\ out' = <<[to |-> u, msg |-> "max_limit"]>>
            /\ UNCHANGED <<user_data, arrivals>>
       ELSE LET new == PhotoAppend(photos, file_id) IN
            /\ user_data' = [user_data EXCEPT ![u] = Put(@, "photos", new)]
            /\ out' = <<[to |-> u, msg |-> "received", total |-> Len(new)]>>
            /\ arrivals' = [arrivals EXCEPT ![u] = @ + 1]
    /\ UNCHANGED <<files, files_json, conv, tmp, n_docs, clock>>

photo_handler(u, file_id, file_size) ==
    /\ Dispatch
    /\ LET photos == Get(user_data[u], "photos", <<>>) IN
       IF TooBig(file_size)
       THEN /\ out' = <<[to |-> u, msg |-> "too_big"]>>
            /\ UNCHANGED <<user_data, arrivals>>
       ELSE IF AtCap(photos)
       THEN /\ out' = <<[to |-> u, msg |-> "max_limit"]>>
            /\ UNCHANGED <<user_data, arrivals>>
       ELSE LET new == PhotoAppend(photos, file_id) IN
            /\ user_data' = [user_data EXCEPT ![u] = Put(@, "photos", new)]
            /\ out' = <<[to |-> u, msg |-> "received", total |-> Len(new)]>>
            /\ arrivals' = [arrivals EXCEPT ![u] = @ + 1]
    /\ UNCHANGED <<files, files_json, conv, tmp, n_docs, clock>>

(* The user numbers the photos of a session in the order they send them. *)
PhotoEvent(u) ==
    \E fs \in DeclaredSizes : photo_handler(u, arrivals[u] + 1, fs)

----------------------------------------------------------------------------
(* start, src/bot.py:125-152 *)

\* a start that resets the options as well (the second revision's,
\* src/bot.py:664-668)
start_resets(u) ==
    /\ Dispatch
    /\ user_data' = [user_data EXCEPT ![u] = Put(EmptyDict, "pdf_options", DefaultOptions)]
    /\ out' = <<[to |-> u, msg |-> "welcome"]>>
    /\ arrivals' = [arrivals EXCEPT ![u] = 0]
    /\ UNCHANGED <<files, files_json, conv, tmp, n_docs, clock>>

start(u) ==
    /\ Dispatch
    /\ LET d1 == IF Has(user_data[u], "pdf_options") THEN user_data[u]
                 ELSE Put(user_data[u], "pdf_options", DefaultOptions)
           d2 == IF Has(d1, "photos")
                 THEN Put(EmptyDict, "pdf_options", Get(d1, "pdf_options", EmptyDict))
                 ELSE d1
       IN user_data' = [user_data EXCEPT ![u] = d2]
    /\ out' = <<[to |-> u, msg |-> "welcome"]>>
    /\ arrivals' = [arrivals EXCEPT ![u] = 0]
    /\ UNCHANGED <<files, files_json, conv, tmp, n_docs, clock>>

(* cancel, src/bot.py:328-330 *)

\* a cancel that resets the options and keeps the pending images
cancel_keeps_photos(u) ==
    /\ Dispatch
    /\ user_data' = [user_data EXCEPT ![u] = Del(@, "pdf_options")]
    /\ out' = <<[to |-> u, msg |-> "cancelled"]>>
    /\ UNCHANGED <<files, files_json, conv, tmp, n_docs, arrivals, clock>>

cancel(u) ==
    /\ Dispatch
    /\ user_data' = [user_data EXCEPT ![u] = EmptyDict]
    /\ out' = <<[to |-> u, msg |-> "cancelled"]>>
    /\ arrivals' = [arrivals EXCEPT ![u] = 0]
    /\ UNCHANGED <<files, files_json, conv, tmp, n_docs, clock>>

----------------------------------------------------------------------------
(* Strings as sequences of one-character strings *)

DigitChars == <<"0", "1", "2", "3", "4", "5", "6", "7", "8", "9">>

RECURSIVE Str(_)
Str(n) == IF n < 10 THEN <<DigitChars[n + 1]>>
          ELSE Str(n \div 10) \o <<DigitChars[(n % 10) + 1]>>

RECURSIVE Join(_, _)
Join(sep, parts) ==
    IF parts = <<>> THEN <<>>
    ELSE IF Len(parts) = 1 THEN parts[1]
    ELSE parts[1] \o sep \o Join(sep, Tail(parts))

Slice(s, n) == SubSeq(s, 1, IF Len(s) < n THEN Len(s) ELSE n)

LowerChar(c) ==
    CASE c = "A" -> "a" [] c = "B" -> "b" [] c = "X" -> "x" [] OTHER -> c
Lower(s) == [i \in 1..Len(s) |-> LowerChar(s[i])]

RECURSIVE LStrip(_)
LStrip(s) == IF s # <<>> /\ s[1] = " " THEN LStrip(Tail(s)) ELSE s
RECURSIVE RStrip(_)
RStrip(s) == IF s # <<>> /\ s[Len(s)] = " " THEN RStrip(SubSeq(s, 1, Len(s) - 1)) ELSE s
Strip(s) == RStrip(LStrip(s))

Replace(s, a, b) == [i \in 1..Len(s) |-> IF s[i] = a THEN b ELSE s[i]]

----------------------------------------------------------------------------
(* ensure_image_dimensions, src/bot.py:100-121.  ratio and the products
   w * ratio, h * ratio are IEEE-754 doubles (53-bit significand, round to
   nearest, ties to even); int() truncates.  For L = max(w, h) above
   MAX_DIMENSION_PX the double nearest to MAX_DIMENSION_PX / L is
   q / 2^(52+j) with j = RatioExp(L), and
   q * L = MAX_DIMENSION_PX * 2^(52+j) + RatioErr(L).  The product s * ratio
   is then the double nearest to s * MAX_DIMENSION_PX / L plus
   s * RatioErr(L) / (L * 2^(52+j)): it lies below an integer k only when
   s * MAX_DIMENSION_PX / L = k exactly, the ratio was rounded down, and the
   deficit exceeds half the spacing of the doubles just below k. *)

MAX_DIMENSION_PX == 4000

Max(a, b) == IF a > b THEN a ELSE b

RECURSIVE Pow2(_)
Pow2(n) == IF n = 0 THEN 1 ELSE 2 * Pow2(n - 1)

\* 2^n mod L
RECURSIVE Pow2Mod(_, _)
Pow2Mod(n, L) == IF n = 0 THEN 1 % L ELSE (2 * Pow2Mod(n - 1, L)) % L

\* the least j >= from with MAX_DIMENSION_PX * 2^j >= L
RECURSIVE RatioExpFrom(_, _)
RatioExpFrom(from, L) ==
    IF MAX_DIMENSION_PX * Pow2(from) >= L THEN from ELSE RatioExpFrom(from + 1, L)

RatioExp(L) == RatioExpFrom(0, L)

\* q * L - MAX_DIMENSION_PX * 2^(52+j) for the rounded quotient q
RatioErr(L) ==
    LET rem == ((MAX_DIMENSION_PX % L) * Pow2Mod(52 + RatioExp(L), L)) % L
    IN IF 2 * rem < L THEN -rem ELSE L - rem

\* the least E >= from with k <= 2^(E+1)
RECURSIVE BinadeFrom(_, _)
BinadeFrom(from, k) == IF Pow2(from + 1) >= k THEN from ELSE BinadeFrom(from + 1, k)

\* the E with 2^E < k <= 2^(E+1), k >= 1
Binade(k) == BinadeFrom(-1, k)

\* int(s * ratio) with ratio = MAX_DIMENSION_PX / L, src/bot.py:110-111
Scaled(s, L) ==
    LET k == (s * MAX_DIMENSION_PX) \div L
        err == RatioErr(L)
        x == Binade(k) + RatioExp(L) - 1
    IN IF (s * MAX_DIMENSION_PX) % L # 0 \/ err >= 0 \/ k = 0 THEN k
       ELSE IF x >= 0
       THEN (IF s * (-err) > L * Pow2(x) THEN k - 1 ELSE k)
       ELSE (IF s * (-err) * Pow2(-x) > L THEN k - 1 ELSE k)

\* a resize that squeezes every large image into a square
new_size_square(w, h) == <<MAX_DIMENSION_PX, MAX_DIMENSION_PX>>

\* src/bot.py:110-111
new_size(w, h) == <<Scaled(w, Max(w, h)), Scaled(h, Max(w, h))>>

\* An image file on disk: whether Image.open can decode it, its size now, the
\* size it was downloaded with, and the target size once computed.
ImageFile(decodable, w, h) ==
    [pc |-> "file", decodable |-> decodable, size |-> <<w, h>>, orig |-> <<w, h>>,
     target |-> <<w, h>>]

\* src/bot.py:100-121: True with the file as it was, True with the file
\* re-saved at the target size, or False when opening, resizing or saving
\* raised (a target dimension of 0 makes the resize raise)
ensure_image_dimensions(im) ==
    LET w == im.size[1]
        h == im.size[2]
    IN IF ~im.decodable THEN [im EXCEPT !.pc = "returned_false"]
       ELSE IF Max(w, h) <= MAX_DIMENSION_PX THEN [im EXCEPT !.pc = "returned_true"]
       ELSE IF new_size(w, h)[1] = 0 \/ new_size(w, h)[2] = 0
       THEN [im EXCEPT !.pc = "returned_false", !.target = new_size(w, h)]
       ELSE [im EXCEPT !.pc = "returned_true", !.target = new_size(w, h),
                       !.size = new_size(w, h)]

----------------------------------------------------------------------------
(* Catalog, src/bot.py:58-83 *)

TITLE_MAX == 128

(* The values md5(s + str(time.time())).hexdigest()[:6] can take for the
   readings of the clock: the salt is the environment's, so the digest is an
   input of the put. *)
HashValues == {"a", "b"}

\* make_slug, src/bot.py:67-69
make_slug(title, digest) ==
    LET s == Replace(Strip(Lower(IF title = <<>> THEN <<"f", "i", "l", "e">> ELSE title)), " ", "_")
    IN s \o <<"_">> \o <<digest>>

\* the insert of index_pdf, src/bot.py:73-81
IndexInsert(index, title, file_id, uploader_id, digest, t) ==
    Put(index, make_slug(title, digest),
        [file_id |-> file_id, title |-> title, type |-> "pdf",
         uploader |-> uploader_id, time |-> t])

\* save_index_sync, src/bot.py:58-60: open(..., "w") truncates, json.dump writes
SaveOutcomes == {"ok", "open_fails", "dump_fails"}
Saved(disk, index, outcome) ==
    CASE outcome = "ok" -> [kind |-> "ok", doc |-> index]
      [] outcome = "open_fails" -> disk
      [] OTHER -> [kind |-> "corrupt", doc |-> EmptyDict]

\* a loader that takes what it can make out of a damaged file
load_index_lenient(disk) == disk.doc

\* load_index, src/bot.py:50-55
load_index(disk) == IF disk.kind = "ok" THEN disk.doc ELSE EmptyDict

----------------------------------------------------------------------------
(* convert_to_pdf, src/bot.py:243-319.  The coroutine suspends at get_file,
   download_to_drive, reply_document and save_index; conv.pc names the call
   it is suspended in. *)

ConvTitle(photos) == Slice(Join(<<" ", "/", " ">>, [i \in 1..Len(photos) |-> Str(photos[i])]), TITLE_MAX)

\* a page size table whose LETTER row holds the A4 numbers
PagesizeArgOneRow(page_size) ==
    CASE page_size \in {"A4", "LETTER"} -> <<210, 297>>
      [] OTHER -> <<>>

\* src/bot.py:281-285; sizes in millimetres as handed to img2pdf.mm_to_pt
PagesizeArg(page_size) ==
    CASE page_size = "A4" -> <<210, 297>>
      [] page_size = "LETTER" -> <<216, 279>>
      [] OTHER -> <<>>

\* img2pdf.convert is called with the paths and, at most, pagesize
\* (src/bot.py:286-291): margin_mm is read at entry and handed to nothing, so
\* the encoder is asked for no border (0 mm) on any edge
BorderArg(margin_mm) == 0

\* a text sent to the chat of user u
Reply(u, m) == [to |-> u, msg |-> m]

\* error_handler, src/bot.py:337-338: an exception that leaves a handler of
\* u's update is logged; nothing is sent
Logged(u) == [to |-> u, msg |-> "logged_handler_error"]

\* per-image replies that count images from 0
ImageReplyZeroBased(u, m, i) == [to |-> u, msg |-> m, index |-> i - 1]

\* the per-image replies of src/bot.py:262-276 carry the 1-based index
ImageReply(u, m, i) == [to |-> u, msg |-> m, index |-> i]

\* tempfile.mkdtemp, src/bot.py:254: a fresh, empty directory
mkdtemp(disk) == Cardinality(DOMAIN disk) + 1

\* the downloaded image i and the encoded document, src/bot.py:266,285
ImgFile(i) == [stem |-> "img", n |-> i, ext |-> "jpg"]
PdfFile == [stem |-> "images_converted", n |-> 0, ext |-> "pdf"]

\* files written into a directory
Written(disk, dir, names) == [disk EXCEPT ![dir] = @ \cup names]

\* a clean-up that removes nothing
rmtree_skipped(disk, dir) == disk

\* shutil.rmtree(tmpdir, ignore_errors=True), src/bot.py:317
rmtree(disk, dir) == Del(disk, dir)

\* the `finally` of src/bot.py:315-319 and the return to the dispatcher
ConvReturn == conv' = Idle /\ tmp' = rmtree(tmp, conv.tmpdir)

\* an except branch that also drops the session
ConvExceptClears ==
    /\ out' = Append(out, Reply(conv.u, "error_creating_pdf"))
    /\ ConvReturn
    /\ user_data' = [user_data EXCEPT ![conv.u] = EmptyDict]
    /\ UNCHANGED <<files, files_json, n_docs, arrivals, clock>>

\* `except Exception` of src/bot.py:312-314
ConvExcept ==
    /\ out' = Append(out, Reply(conv.u, "error_creating_pdf"))
    /\ ConvReturn
    /\ UNCHANGED <<user_data, files, files_json, n_docs, arrivals, clock>>

\* an entry that does not look whether there are images
ConvEnterUnchecked(u, from, first) ==
    LET photos == Get(user_data[u], "photos", <<>>)
        pdf_opts == Get(user_data[u], "pdf_options", DefaultOptions)
    IN /\ out' = <<Reply(u, first)>>
       /\ tmp' = Put(tmp, mkdtemp(tmp), {})
       /\ conv' = [pc |-> "get_file", u |-> u, from |-> from,
                   photos |-> photos,
                   page_size |-> Get(pdf_opts, "page_size", DEFAULT_PAGE_SIZE),
                   margin_mm |-> Get(pdf_opts, "margin_mm", DEFAULT_MARGIN_MM),
                   tmpdir |-> mkdtemp(tmp),
                   i |-> 1, paths |-> <<>>, pre |-> user_data[u]]

\* src/bot.py:244-254 after the caller's first reply
ConvEnter(u, from, first) ==
    LET photos == Get(user_data[u], "photos", <<>>)
        pdf_opts == Get(user_data[u], "pdf_options", DefaultOptions)
    IN IF photos = <<>>
       THEN /\ out' = <<Reply(u, first), Reply(u, "no_images")>>
            /\ UNCHANGED <<conv, tmp>>
       ELSE /\ out' = <<Reply(u, first)>>
            /\ tmp' = Put(tmp, mkdtemp(tmp), {})
            /\ conv' = [pc |-> "get_file", u |-> u, from |-> from,
                        photos |-> photos,
                        page_size |-> Get(pdf_opts, "page_size", DEFAULT_PAGE_SIZE),
                        margin_mm |-> Get(pdf_opts, "margin_mm", DEFAULT_MARGIN_MM),
                        tmpdir |-> mkdtemp(tmp),
                        i |-> 1, paths |-> <<>>, pre |-> user_data[u]]

\* convert_cmd, src/bot.py:323-325
convert_cmd(u) ==
    /\ Dispatch
    /\ ConvEnter(u, u, "converting")
    /\ UNCHANGED <<user_data, files, files_json, n_docs, arrivals, clock>>

\* button_handler with data == "convert", src/bot.py:198-201: the message
\* handed on is the bot's own keyboard message
button_convert(u) ==
    /\ Dispatch
    /\ ConvEnter(u, BOT, "making_pdf")
    /\ UNCHANGED <<user_data, files, files_json, n_docs, arrivals, clock>>

\* get_file returns or raises; declared-size check, src/bot.py:259-265
get_file_done ==
    /\ conv.pc = "get_file"
    /\ \/ ConvExcept
       \/ \E fs \in DeclaredSizes :
            IF TooBig(fs)
            THEN /\ out' = Append(out, ImageReply(conv.u, "image_too_big", conv.i))
                 /\ ConvReturn
                 /\ UNCHANGED <<user_data, files, files_json, n_docs, arrivals, clock>>
            ELSE /\ conv' = [conv EXCEPT !.pc = "download"]
                 /\ UNCHANGED <<user_data, files, files_json, out, tmp, n_docs, arrivals, clock>>

DiskSizes == {MAX_FILE_SIZE_BYTES, MAX_FILE_SIZE_BYTES + 1}

\* a conversion that trusts the declared size
DiskCheckSkipped(st_size) == FALSE

\* st.st_size > MAX_FILE_SIZE_BYTES, src/bot.py:269-270
DiskTooBig(st_size) == st_size > MAX_FILE_SIZE_BYTES

\* paths collected newest first
PathsPrepend(paths, i, file_id, st_size) ==
    <<[name |-> i, file_id |-> file_id, st_size |-> st_size]>> \o paths

\* one path per downloaded image, src/bot.py:266,278
PathsAppend(paths, i, file_id, st_size) ==
    Append(paths, [name |-> i, file_id |-> file_id, st_size |-> st_size])

\* the files a download can leave at dest: an image within the dimension
\* limit, one above it, one that is no image, and one whose resize fails
DownloadedImages ==
    {ImageFile(TRUE, 800, 600), ImageFile(TRUE, 4210, 2105), ImageFile(FALSE, 1, 1),
     ImageFile(TRUE, 8000, 1)}

\* a conversion that does not look at the result of the normaliser
OkIgnored(im) == TRUE

\* ok = ensure_image_dimensions(str(dest)), src/bot.py:274
Ok(im) == ensure_image_dimensions(im).pc = "returned_true"

\* download_to_drive has returned: on-disk size and decode checks; after the
\* last image the encoder runs and reply_document is awaited,
\* src/bot.py:268-295
downloaded(st_size, im, encodes) ==
    IF DiskTooBig(st_size)
    THEN /\ out' = Append(out, ImageReply(conv.u, "downloaded_too_big", conv.i))
         /\ ConvReturn
         /\ UNCHANGED <<user_data, files, files_json, n_docs, arrivals, clock>>
    ELSE IF ~Ok(im)
    THEN /\ out' = Append(out, ImageReply(conv.u, "cannot_process", conv.i))
         /\ ConvReturn
         /\ UNCHANGED <<user_data, files, files_json, n_docs, arrivals, clock>>
    ELSE LET paths == PathsAppend(conv.paths, conv.i, conv.photos[conv.i], st_size) IN
         IF conv.i < Len(conv.photos)
         THEN /\ conv' = [conv EXCEPT !.pc = "get_file", !.i = @ + 1, !.paths = paths]
              /\ tmp' = Written(tmp, conv.tmpdir, {ImgFile(conv.i)})
              /\ UNCHANGED <<user_data, files, files_json, out, n_docs, arrivals, clock>>
         ELSE IF ~encodes
         THEN ConvExcept
         ELSE /\ conv' = [conv EXCEPT !.pc = "reply_document", !.paths = paths]
              /\ tmp' = Written(tmp, conv.tmpdir, {ImgFile(conv.i), PdfFile})
              /\ UNCHANGED <<user_data, files, files_json, out, n_docs, arrivals, clock>>

\* download_to_drive returns or raises, src/bot.py:267
download_done ==
    /\ conv.pc = "download"
    /\ \/ ConvExcept
       \/ \E st_size \in DiskSizes, im \in DownloadedImages, encodes \in BOOLEAN :
            downloaded(st_size, im, encodes)

\* a conversion that leaves the session as it is
ConvKeeps(d) == d

\* a conversion that keeps the options, as /start does
ConvClearPhotos(d) == Del(d, "photos")

\* context.user_data.clear(), src/bot.py:310
ConvClear(d) == EmptyDict

\* an indexing step that makes a handle up when the reply carries no document
SentFileIdAssumed(sent) == IF sent.file_id = 0 THEN 1 ELSE sent.file_id

\* src/bot.py:299-301: the handle of the sent document, None (0) without one
SentFileId(sent) == sent.file_id

\* reply_document returns or raises; indexing starts, src/bot.py:295-305
reply_document_done ==
    /\ conv.pc = "reply_document"
    /\ \/ ConvExcept
       \/ \E has_document \in BOOLEAN :
            LET doc == [to |-> conv.u, msg |-> "document", pages |-> conv.paths,
                        pagesize |-> PagesizeArg(conv.page_size),
                        border |-> BorderArg(conv.margin_mm),
                        file_id |-> IF has_document THEN n_docs + 1 ELSE 0]
                sent_file_id == SentFileId(doc)
            IN /\ n_docs' = n_docs + 1
               /\ out' = Append(out, doc)
               /\ IF sent_file_id # 0
                  THEN /\ \E digest \in HashValues :
                            files' = IndexInsert(files, ConvTitle(conv.photos), sent_file_id,
                                                 conv.from, digest, clock + 1)
                       /\ clock' = clock + 1
                       /\ conv' = [conv EXCEPT !.pc = "save_index"]
                       /\ UNCHANGED <<user_data, arrivals, tmp>>
                  ELSE /\ user_data' = [user_data EXCEPT ![conv.u] = ConvClear(@)]
                       /\ arrivals' = [arrivals EXCEPT ![conv.u] = 0]
                       /\ ConvReturn
                       /\ UNCHANGED <<files, clock>>
               /\ UNCHANGED files_json

\* save_index returns or raises (caught, src/bot.py:307-308); the slug reply;
\* the session is cleared, src/bot.py:305-310
save_index_done ==
    /\ conv.pc = "save_index"
    /\ \E outcome \in SaveOutcomes :
         /\ files_json' = Saved(files_json, files, outcome)
         /\ out' = IF outcome = "ok" THEN Append(out, Reply(conv.u, "stored")) ELSE out
    /\ user_data' = [user_data EXCEPT ![conv.u] = ConvClear(@)]
    /\ arrivals' = [arrivals EXCEPT ![conv.u] = 0]
    /\ ConvReturn
    /\ UNCHANGED <<files, n_docs, clock>>

----------------------------------------------------------------------------
----------------------------------------------------------------------------
(* Catalog commands, src/bot.py:400-438.  A command's arguments are the
   requester, the slug given and, for rename, the new title (empty when the
   command came with too few arguments). *)

\* is_admin, src/bot.py:87-88
is_admin(user_id) == user_id \in ADMINS

\* titles typed after /rename <slug>: a short one and one of 129 characters
LongTitle == [i \in 1..129 |-> "x"]
NewTitles == {<<"A", " ", "b">>}
UnknownSlug == <<"n", "o", "n", "e">>
SlugArgs == DOMAIN files \cup {UnknownSlug}

\* no authorization on rename
MayRenameAnyone(meta, user_id) == TRUE

\* src/bot.py:432
MayRename(meta, user_id) == ~(meta.uploader # user_id /\ ~is_admin(user_id))

\* src/bot.py:435-436
Retitled(index, slug, new_title) == [index EXCEPT ![slug].title = new_title]

\* what rename_cmd answers on the catalog `index`, src/bot.py:419-438
rename_reply(index, user_id, slug, new_title) ==
    IF new_title = <<>> THEN "usage_rename"
    ELSE IF ~Has(index, slug) THEN "slug_not_found"
    ELSE IF ~MayRename(index[slug], user_id) THEN "only_uploader_or_admin"
    ELSE "renamed"

\* rename_cmd, src/bot.py:419-438
rename_cmd(user_id, slug, new_title) ==
    /\ Dispatch
    /\ IF new_title = <<>>
       THEN /\ out' = <<Reply(user_id, "usage_rename")>>
            /\ UNCHANGED <<files, files_json>>
       ELSE IF ~Has(files, slug)
       THEN /\ out' = <<Reply(user_id, "slug_not_found")>>
            /\ UNCHANGED <<files, files_json>>
       ELSE IF ~MayRename(files[slug], user_id)
       THEN /\ out' = <<Reply(user_id, "only_uploader_or_admin")>>
            /\ UNCHANGED <<files, files_json>>
       ELSE /\ files' = Retitled(files, slug, new_title)
            /\ \E outcome \in SaveOutcomes :
                 /\ files_json' = Saved(files_json, files', outcome)
                 /\ out' = IF outcome = "ok"
                           THEN <<[to |-> user_id, msg |-> "renamed", slug |-> slug,
                                   title |-> new_title]>>
                           ELSE <<Logged(user_id)>>
    /\ UNCHANGED <<user_data, conv, tmp, n_docs, arrivals, clock>>

\* no authorization on delete
MayDeleteAnyone(user_id) == TRUE

\* src/bot.py:406
MayDelete(user_id) == is_admin(user_id)

\* what delete_cmd answers on the catalog `index`, src/bot.py:400-416
delete_reply(index, user_id, slug, no_args) ==
    IF no_args THEN "usage_delete"
    ELSE IF ~MayDelete(user_id) THEN "admin_only"
    ELSE IF ~Has(index, slug) THEN "slug_not_found"
    ELSE "deleted"

\* delete_cmd, src/bot.py:400-416; no_args is `not args`
delete_cmd(user_id, slug, no_args) ==
    /\ Dispatch
    /\ IF no_args
       THEN /\ out' = <<Reply(user_id, "usage_delete")>>
            /\ UNCHANGED <<files, files_json>>
       ELSE IF ~MayDelete(user_id)
       THEN /\ out' = <<Reply(user_id, "admin_only")>>
            /\ UNCHANGED <<files, files_json>>
       ELSE IF ~Has(files, slug)
       THEN /\ out' = <<Reply(user_id, "slug_not_found")>>
            /\ UNCHANGED <<files, files_json>>
       ELSE /\ files' = Del(files, slug)
            /\ \E outcome \in SaveOutcomes :
                 /\ files_json' = Saved(files_json, files', outcome)
                 /\ out' = IF outcome = "ok"
                           THEN <<[to |-> user_id, msg |-> "deleted", slug |-> slug]>>
                           ELSE <<Logged(user_id)>>
    /\ UNCHANGED <<user_data, conv, tmp, n_docs, arrivals, clock>>

(* find_cmd, src/bot.py:342-357 *)

\* `q in s` for strings
In(q, s) == \E i \in 0..(Len(s) - Len(q)) : SubSeq(s, i + 1, i + Len(q)) = q

\* index.items(): a dict lists its entries in the order of their puts, and
\* each put stores a later reading of the clock than the one before
RECURSIVE ItemsFrom(_, _)
ItemsFrom(index, slugs) ==
    IF slugs = {} THEN <<>>
    ELSE LET first == CHOOSE s \in slugs : \A r \in slugs : index[s].time <= index[r].time
         IN <<first>> \o ItemsFrom(index, slugs \ {first})

Items(index) == ItemsFrom(index, DOMAIN index)

\* a search that looks at titles only
find_match_title_only(q, slug, meta) == In(q, Lower(meta.title))

\* src/bot.py:351
find_match(q, slug, meta) == In(q, Lower(meta.title)) \/ In(q, slug)

\* results[:50], src/bot.py:356
FIND_SHOWN == 50

\* args is context.args: the words after the command
find_cmd(u, args) ==
    /\ Dispatch
    /\ IF args = <<>>
       THEN out' = <<Reply(u, "usage_find")>>
       ELSE LET q == Lower(Join(<<" ">>, args))
                Test(slug) == find_match(q, slug, files[slug])
                results == SelectSeq(Items(files), Test)
            IN IF results = <<>>
               THEN out' = <<Reply(u, "nothing_found")>>
               ELSE out' = <<[to |-> u, msg |-> "search_results",
                              lines |-> [i \in 1..Len(Slice(results, FIND_SHOWN)) |->
                                            <<results[i], files[results[i]].title>>]]>>
    /\ UNCHANGED <<user_data, files, files_json, conv, tmp, n_docs, arrivals, clock>>

(* inline_query_handler, src/bot.py:470-496 *)

Reversed(s) == [i \in 1..Len(s) |-> s[Len(s) + 1 - i]]

\* items.sort(key=time, reverse=True), src/bot.py:476-477
ItemsRecentFirst(index) == Reversed(Items(index))

\* results[:50] and items[:50], src/bot.py:480, 493
INLINE_SHOWN == 50

\* src/bot.py:481
InlineTitle(slug, meta) == IF meta.title = <<>> THEN slug ELSE meta.title

\* src/bot.py:482: the entry is kept
inline_match(q, slug, meta) ==
    ~(q # <<>> /\ ~In(q, slug) /\ ~In(q, Lower(InlineTitle(slug, meta))))

\* a handler that filters the whole catalog and cuts the results afterwards
inline_candidates_all(index) == ItemsRecentFirst(index)

\* items[:50], src/bot.py:480: the entries the loop looks at
inline_candidates(index) == Slice(ItemsRecentFirst(index), INLINE_SHOWN)

\* query is iq.query; the answer lists, per result, description and title
inline_query_handler(u, query) ==
    /\ Dispatch
    /\ LET q == Lower(Strip(query))
           Test(slug) == inline_match(q, slug, files[slug])
           results == SelectSeq(inline_candidates(files), Test)
       IN out' = <<[to |-> u, msg |-> "inline_answer",
                    results |-> [i \in 1..Len(Slice(results, INLINE_SHOWN)) |->
                                   <<results[i],
                                     Slice(InlineTitle(results[i], files[results[i]]), 64)>>]]>>
    /\ UNCHANGED <<user_data, files, files_json, conv, tmp, n_docs, arrivals, clock>>

----------------------------------------------------------------------------
(* Option commands, src/bot.py:442-466 *)

\* str.upper() on the arguments the users of the model type
Upper(val) == CASE val = "a4" -> "A4" [] val = "letter" -> "LETTER" [] val = "auto" -> "AUTO"
                [] OTHER -> val

PAGE_SIZES == {"AUTO", "A4", "LETTER"}

\* a setter that starts a new record on every call
SetOptionFresh(d, key, value) == Put(d, "pdf_options", Put(EmptyDict, key, value))

\* context.user_data.setdefault("pdf_options", {})[key] = value
SetOption(d, key, value) == Put(d, "pdf_options", Put(Get(d, "pdf_options", EmptyDict), key, value))

\* pagesize_cmd, src/bot.py:442-452; arg = "" stands for `not args`
pagesize_cmd(u, arg) ==
    /\ Dispatch
    /\ IF arg = ""
       THEN /\ out' = <<Reply(u, "usage_pagesize")>>
            /\ UNCHANGED user_data
       ELSE IF Upper(arg) \notin PAGE_SIZES
       THEN /\ out' = <<Reply(u, "invalid_pagesize")>>
            /\ UNCHANGED user_data
       ELSE /\ user_data' = [user_data EXCEPT ![u] = SetOption(@, "page_size", Upper(arg))]
            /\ out' = <<[to |-> u, msg |-> "pagesize_set", value |-> Upper(arg)]>>
    /\ UNCHANGED <<files, files_json, conv, tmp, n_docs, arrivals, clock>>

\* a margin stored as typed
ClampNone(n) == n

\* max(0, ...), src/bot.py:232,238,461
ClampMargin(n) == Max(0, n)

\* margin_cmd, src/bot.py:455-466; arg.kind is "none" (`not args`), "text"
\* (int() raises) or "int"
margin_cmd(u, arg) ==
    /\ Dispatch
    /\ IF arg.kind = "none"
       THEN /\ out' = <<Reply(u, "usage_margin")>>
            /\ UNCHANGED user_data
       ELSE IF arg.kind = "text"
       THEN /\ out' = <<Reply(u, "provide_integer")>>
            /\ UNCHANGED user_data
       ELSE /\ user_data' = [user_data EXCEPT ![u] = SetOption(@, "margin_mm", ClampMargin(arg.n))]
            /\ out' = <<[to |-> u, msg |-> "margin_set", value |-> ClampMargin(arg.n)]>>
    /\ UNCHANGED <<files, files_json, conv, tmp, n_docs, arrivals, clock>>

----------------------------------------------------------------------------
(* Settings buttons of button_handler, src/bot.py:224-240.  The callback
   query carries the data string; u is the user who pressed. *)

\* button_handler with data == "show_settings", src/bot.py:203-222: the text
\* of the edited message indexes both keys of the record
button_show_settings(u) ==
    /\ Dispatch
    /\ LET opts == Get(user_data[u], "pdf_options", DefaultOptions)
       IN out' = IF Has(opts, "page_size") /\ Has(opts, "margin_mm")
                 THEN <<[to |-> u, msg |-> "current_settings",
                         page_size |-> opts["page_size"], margin_mm |-> opts["margin_mm"]]>>
                 ELSE <<Logged(u)>>
    /\ UNCHANGED <<user_data, files, files_json, conv, tmp, n_docs, arrivals, clock>>

\* data.startswith("set_pagesize_"), src/bot.py:224-228; chosen is the rest
\* of the data string
button_set_pagesize(u, chosen) ==
    /\ Dispatch
    /\ user_data' = [user_data EXCEPT ![u] = SetOption(@, "page_size", chosen)]
    /\ out' = <<[to |-> u, msg |-> "pagesize_chosen", value |-> chosen]>>
    /\ UNCHANGED <<files, files_json, conv, tmp, n_docs, arrivals, clock>>

\* opts["margin_mm"] = max(0, opts.get("margin_mm", DEFAULT_MARGIN_MM) + delta)
StepMargin(d, delta) ==
    SetOption(d, "margin_mm",
              ClampMargin(Get(Get(d, "pdf_options", EmptyDict), "margin_mm", DEFAULT_MARGIN_MM) + delta))

\* data == "inc_margin", src/bot.py:230-234
button_inc_margin(u) ==
    /\ Dispatch
    /\ user_data' = [user_data EXCEPT ![u] = StepMargin(@, 1)]
    /\ out' = <<[to |-> u, msg |-> "margin_stepped", value |-> user_data'[u]["pdf_options"]["margin_mm"]]>>
    /\ UNCHANGED <<files, files_json, conv, tmp, n_docs, arrivals, clock>>

\* data == "dec_margin", src/bot.py:236-240
button_dec_margin(u) ==
    /\ Dispatch
    /\ user_data' = [user_data EXCEPT ![u] = StepMargin(@, -1)]
    /\ out' = <<[to |-> u, msg |-> "margin_stepped", value |-> user_data'[u]["pdf_options"]["margin_mm"]]>>
    /\ UNCHANGED <<files, files_json, conv, tmp, n_docs, arrivals, clock>>

----------------------------------------------------------------------------
(* The environment of the bounded runs.  The chat shows the replies of a
   handler before the next update is taken; a user asks for a conversion of
   at most MaxBatch images, at most MaxConv documents are sent, and margins
   typed are at most MaxMargin.  An update that arrives while the dispatcher
   is free is handled at once; one that arrives while a handler is suspended
   waits in update_queue (at most MaxQueue of them) until it has returned. *)

PagesizeArgs == {"", "a4", "A4", "LETTER", "AUTO", "B5"}
MarginArgs == {[kind |-> "none", n |-> 0], [kind |-> "text", n |-> 0]}
              \cup {[kind |-> "int", n |-> n] : n \in -1..MaxMargin}

\* the rest of a "set_pagesize_..." callback data string: the three buttons
\* of the settings keyboard (src/bot.py:209-213), and a string no button of
\* the keyboard carries (the data of a callback query is the client's)
ButtonPagesizes == {"A4", "LETTER", "AUTO", "B5"}

Ready == conv = Idle /\ out = <<>> /\ update_queue = <<>>

Shown ==
    /\ conv = Idle
    /\ out # <<>>
    /\ out' = <<>>
    /\ UNCHANGED <<user_data, files, files_json, conv, tmp, n_docs, arrivals, clock, update_queue, image, photo_tasks>>

CanConvert(u) ==
    \/ ~Has(user_data[u], "photos")
    \/ /\ Len(Get(user_data[u], "photos", <<>>)) <= MaxBatch
       /\ n_docs < MaxConv

\* an update handled as it arrives
Direct == Ready /\ UNCHANGED <<update_queue, image, photo_tasks>>

SendsPhoto(u) == Direct /\ PhotoEvent(u)
SendsFewPhotos(u) == Direct /\ arrivals[u] < MaxBatch /\ PhotoEvent(u)
SendsStart(u) == Direct /\ start(u)
SendsCancel(u) == Direct /\ cancel(u)
SendsConvert(u) == Direct /\ CanConvert(u) /\ convert_cmd(u)
PressesConvert(u) == Direct /\ CanConvert(u) /\ button_convert(u)
SendsPagesize(u) == Direct /\ \E arg \in PagesizeArgs : pagesize_cmd(u, arg)
SendsMargin(u) == Direct /\ \E arg \in MarginArgs : margin_cmd(u, arg)
PressesSetPagesize(u) == Direct /\ \E chosen \in ButtonPagesizes : button_set_pagesize(u, chosen)
PressesIncMargin(u) ==
    /\ Direct
    /\ Get(Get(user_data[u], "pdf_options", EmptyDict), "margin_mm", DEFAULT_MARGIN_MM) < MaxMargin
    /\ button_inc_margin(u)
PressesDecMargin(u) == Direct /\ button_dec_margin(u)
PressesShowSettings(u) == Direct /\ button_show_settings(u)
SendsRename(user_id) ==
    Direct /\ \E slug \in SlugArgs, new_title \in NewTitles \cup {<<>>} :
                 rename_cmd(user_id, slug, new_title)
SendsLongRename(user_id) ==
    Direct /\ \E slug \in SlugArgs : rename_cmd(user_id, slug, LongTitle)
SendsDelete(user_id) ==
    Direct /\ \E slug \in SlugArgs, no_args \in BOOLEAN : delete_cmd(user_id, slug, no_args)

\* the suspended conversion resumes; the dispatcher takes nothing meanwhile
ConvSteps ==
    \/ get_file_done /\ UNCHANGED <<update_queue, image, photo_tasks>>
    \/ download_done /\ UNCHANGED <<update_queue, image, photo_tasks>>
    \/ reply_document_done /\ UNCHANGED <<update_queue, image, photo_tasks>>
    \/ save_index_done /\ UNCHANGED <<update_queue, image, photo_tasks>>

\* /cancel sent while a conversion is suspended
CancelArrives(u) ==
    /\ conv.pc # "idle"
    /\ Len(update_queue) < MaxQueue
    /\ update_queue' = Append(update_queue, [kind |-> "cancel", u |-> u])
    /\ UNCHANGED <<user_data, files, files_json, conv, tmp, out, n_docs, arrivals, clock, image, photo_tasks>>

\* the dispatcher is free again and takes the oldest waiting update
TakesUpdate ==
    /\ conv = Idle /\ out = <<>>
    /\ update_queue # <<>>
    /\ Head(update_queue).kind = "cancel" /\ cancel(Head(update_queue).u)
    /\ update_queue' = Tail(update_queue)
    /\ UNCHANGED <<image, photo_tasks>>

(* Sessions, options and the conversion pipeline *)
Next ==
    \/ \E u \in Senders : SendsFewPhotos(u)
    \/ \E u \in Senders : SendsStart(u)
    \/ \E u \in Senders : SendsCancel(u)
    \/ \E u \in Senders : SendsPagesize(u)
    \/ \E u \in Senders : SendsMargin(u)
    \/ \E u \in Senders : PressesSetPagesize(u)
    \/ \E u \in Senders : PressesIncMargin(u)
    \/ \E u \in Senders : PressesDecMargin(u)
    \/ \E u \in Senders : SendsConvert(u)
    \/ \E u \in Senders : PressesConvert(u)
    \/ ConvSteps
    \/ Shown

Spec == Init /\ [][Next]_vars

(* Sessions up to the cap on pending images *)
NextCap ==
    \/ \E u \in Senders : SendsPhoto(u)
    \/ \E u \in Senders : SendsStart(u)
    \/ \E u \in Senders : SendsCancel(u)
    \/ \E u \in Senders : SendsPagesize(u)
    \/ \E u \in Senders : SendsConvert(u)
    \/ \E u \in Senders : PressesConvert(u)
    \/ ConvSteps
    \/ Shown

SpecCap == Init /\ [][NextCap]_vars

(* The catalog and its commands *)
NextCatalog ==
    \/ \E u \in Senders : SendsFewPhotos(u)
    \/ \E u \in Senders : SendsConvert(u)
    \/ \E u \in Senders : PressesConvert(u)
    \/ ConvSteps
    \/ \E user_id \in Users : SendsRename(user_id)
    \/ \E user_id \in Users : SendsDelete(user_id)
    \/ Shown

SpecCatalog == Init /\ [][NextCatalog]_vars

(* Renames with a title longer than the titles conversions create *)
NextTitles ==
    \/ \E u \in Senders : SendsFewPhotos(u)
    \/ \E u \in Senders : SendsConvert(u)
    \/ ConvSteps
    \/ \E user_id \in Users : SendsRename(user_id)
    \/ \E user_id \in Users : SendsLongRename(user_id)
    \/ Shown

SpecTitles == Init /\ [][NextTitles]_vars

(* Updates that arrive while a conversion is in flight *)
NextQueue ==
    \/ \E u \in Senders : SendsFewPhotos(u)
    \/ \E u \in Senders : SendsConvert(u)
    \/ \E u \in Senders : PressesConvert(u)
    \/ ConvSteps
    \/ \E u \in Senders : CancelArrives(u)
    \/ TakesUpdate
    \/ Shown

SpecQueue == Init /\ [][NextQueue]_vars

(* The settings keyboard on every session the commands and buttons leave *)
NextSettings ==
    \/ \E u \in Senders : SendsFewPhotos(u)
    \/ \E u \in Senders : SendsStart(u)
    \/ \E u \in Senders : SendsCancel(u)
    \/ \E u \in Senders : SendsPagesize(u)
    \/ \E u \in Senders : SendsMargin(u)
    \/ \E u \in Senders : PressesSetPagesize(u)
    \/ \E u \in Senders : PressesIncMargin(u)
    \/ \E u \in Senders : PressesDecMargin(u)
    \/ \E u \in Senders : PressesShowSettings(u)
    \/ \E u \in Senders : SendsConvert(u)
    \/ ConvSteps
    \/ Shown

SpecSettings == Init /\ [][NextSettings]_vars

(* Photos sent while a conversion is in flight *)

\* the sizes declared for the photos that wait: none, and one over the limit
LateSizes == {NoSize, Size(MAX_FILE_SIZE_BYTES + 1)}

\* a photo sent while a conversion is suspended waits in the queue; the user
\* goes on numbering their photos
PhotoWaits(u) ==
    /\ conv.pc # "idle"
    /\ Len(update_queue) < MaxQueue
    /\ \E fs \in LateSizes :
         update_queue' = Append(update_queue,
                                [kind |-> "photo", u |-> u,
                                 file_id |-> arrivals[u] + Len(update_queue) + 1,
                                 file_size |-> fs])
    /\ UNCHANGED <<user_data, files, files_json, conv, tmp, out, n_docs, arrivals, clock, image,
                   photo_tasks>>

\* a handler started on the waiting photo while the conversion is suspended
HandlesPhotoAtOnce(upd) ==
    /\ LET photos == Get(user_data[upd.u], "photos", <<>>) IN
       IF TooBig(upd.file_size) \/ AtCap(photos)
       THEN UNCHANGED <<user_data, arrivals>>
       ELSE /\ user_data' = [user_data EXCEPT ![upd.u] =
                                Put(@, "photos", PhotoAppend(photos, upd.file_id))]
            /\ arrivals' = [arrivals EXCEPT ![upd.u] = @ + 1]
    /\ UNCHANGED <<files, files_json, conv, tmp, out, n_docs, clock>>

\* the dispatcher hands the update to photo_handler, which is entered when
\* the handler before it has returned (src/bot.py:511, 530)
HandlesPhoto(upd) == photo_handler(upd.u, upd.file_id, upd.file_size)

TakesPhoto ==
    /\ update_queue # <<>>
    /\ Head(update_queue).kind = "photo"
    /\ HandlesPhoto(Head(update_queue))
    /\ update_queue' = Tail(update_queue)
    /\ UNCHANGED <<image, photo_tasks>>

NextLate ==
    \/ \E u \in Senders : SendsFewPhotos(u)
    \/ \E u \in Senders : SendsConvert(u)
    \/ ConvSteps
    \/ \E u \in Senders : PhotoWaits(u)
    \/ TakesPhoto
    \/ Shown

SpecLate == Init /\ [][NextLate]_vars

(* Several conversions, one after the other, each putting its entry *)
ConvertsAgain(u) ==
    /\ Direct
    /\ Len(Get(user_data[u], "photos", <<>>)) <= MaxBatch
    /\ n_docs < MaxPuts
    /\ convert_cmd(u)

NextPuts ==
    \/ \E u \in Senders : SendsFewPhotos(u)
    \/ \E u \in Senders : ConvertsAgain(u)
    \/ ConvSteps
    \/ Shown

SpecPuts == Init /\ [][NextPuts]_vars

(* A conversion after a conversion or a cancel, with the page size set before *)
NextAgain ==
    \/ \E u \in Senders : SendsFewPhotos(u)
    \/ \E u \in Senders : SendsPagesize(u)
    \/ \E u \in Senders : SendsCancel(u)
    \/ \E u \in Senders : ConvertsAgain(u)
    \/ ConvSteps
    \/ Shown

SpecAgain == Init /\ [][NextAgain]_vars

(* Photo updates handled as concurrent tasks.  photo_handler suspends only
   in its awaits of reply_text (src/bot.py:163, 170, 181): a task, once
   scheduled, runs from its first statement to its reply without yielding,
   and is resumed when the reply has returned.  Tasks are scheduled and
   resumed in any order; sequential dispatch is the case where each task
   returns before the next is created.  The session holds nothing, or is two,
   one or no image short of the cap; seen is the pending list as the update
   found it. *)
TaskFileId(k) == MAX_IMAGES + k

PendingAtStart == {<<>>} \cup {[i \in 1..n |-> i] : n \in (MAX_IMAGES - 2)..MAX_IMAGES}

InitPhotos ==
    /\ \E photos \in PendingAtStart :
         /\ user_data = [u \in Users |->
                            IF u \in Senders /\ photos # <<>>
                            THEN Put(EmptyDict, "photos", photos) ELSE EmptyDict]
         /\ arrivals = [u \in Users |-> IF u \in Senders THEN Len(photos) ELSE 0]
    /\ files = EmptyDict
    /\ files_json = [kind |-> "missing", doc |-> EmptyDict]
    /\ Dispatch
    /\ out = <<>>
    /\ n_docs = 0
    /\ clock = 0
    /\ update_queue = <<>>
    /\ tmp = EmptyDict
    /\ image = NoImage
    /\ photo_tasks = <<>>

\* a photo update is taken and a task created for its handler
PhotoArrives(u) ==
    /\ Len(photo_tasks) < MaxTasks
    /\ \E fs \in DeclaredSizes :
         photo_tasks' = Append(photo_tasks,
                               [pc |-> "created", u |-> u,
                                file_id |-> TaskFileId(Len(photo_tasks) + 1),
                                file_size |-> fs,
                                seen |-> Get(user_data[u], "photos", <<>>),
                                reply |-> [to |-> u, msg |-> "none"]])
    /\ UNCHANGED <<user_data, files, files_json, conv, out, n_docs, arrivals, clock,
                   update_queue, tmp, image>>

\* the task runs up to its await of reply_text
PhotoRuns(k) ==
    /\ photo_tasks[k].pc = "created"
    /\ photo_handler(photo_tasks[k].u, photo_tasks[k].file_id, photo_tasks[k].file_size)
    /\ photo_tasks' = [photo_tasks EXCEPT ![k].pc = "reply_text", ![k].reply = out'[1]]
    /\ UNCHANGED <<update_queue, image>>

\* reply_text returns or raises; the handler is left
PhotoReturns(k) ==
    /\ photo_tasks[k].pc = "reply_text"
    /\ photo_tasks' = [photo_tasks EXCEPT ![k].pc = "returned"]
    /\ UNCHANGED <<user_data, files, files_json, conv, out, n_docs, arrivals, clock,
                   update_queue, tmp, image>>

NextPhotos ==
    \/ \E u \in Senders : PhotoArrives(u)
    \/ \E k \in 1..Len(photo_tasks) : PhotoRuns(k)
    \/ \E k \in 1..Len(photo_tasks) : PhotoReturns(k)

SpecPhotos == InitPhotos /\ [][NextPhotos]_vars

(* Searches over catalogs of several sizes.  The title of a converted batch
   is made of the platform's file ids, which mix letters of both cases and
   digits; entry 1 may have been renamed since. *)
FileIdTitle(k) == <<"A">> \o Str(k)

FileIdDigest(k) == IF k % 2 = 0 THEN "a" ELSE "b"
FileIdSlug(k) == make_slug(FileIdTitle(k), FileIdDigest(k))

\* the catalog after n puts with n different slugs: every entry is the one
\* its put inserted, put k at clock reading k
PutsDone(n) ==
    [slug \in {FileIdSlug(k) : k \in 1..n} |->
        LET k == CHOOSE j \in 1..n : FileIdSlug(j) = slug
        IN IndexInsert(EmptyDict, FileIdTitle(k), k, "u1", FileIdDigest(k), k)[slug]]

CatalogSizes == {0, 1, 2, 3, 11, 12, 49, 50, 51, 52}
Catalogs ==
    {PutsDone(n) : n \in CatalogSizes}
    \cup {Retitled(PutsDone(n), FileIdSlug(1), <<"X", " ", "b">>) :
             n \in CatalogSizes \ {0}}

FindArgs == {<<>>, <<<<"A">>>>, <<<<"B">>>>, <<<<"1">>>>, <<<<"a", "2">>>>, <<<<"_">>>>,
             <<<<"z">>>>, <<<<"X">>, <<"B">>>>, <<<<"5", "_", "B">>>>}

InitFind ==
    /\ user_data = [u \in Users |-> EmptyDict]
    /\ files \in Catalogs
    /\ files_json = [kind |-> "ok", doc |-> files]
    /\ Dispatch
    /\ out = <<>>
    /\ n_docs = Cardinality(DOMAIN files)
    /\ arrivals = [u \in Users |-> 0]
    /\ clock = Cardinality(DOMAIN files)
    /\ update_queue = <<>>
    /\ tmp = EmptyDict
    /\ image = NoImage
    /\ photo_tasks = <<>>

SendsFind(u) == Direct /\ \E args \in FindArgs : find_cmd(u, args)

NextFind ==
    \/ \E u \in Senders : SendsFind(u)
    \/ Shown

SpecFind == InitFind /\ [][NextFind]_vars

(* Startup on a catalog file that is missing or cannot be parsed.  A damaged
   file may still hold the text of entries an earlier run saved. *)
HeldCatalog == IndexInsert(EmptyDict, <<"o", "l", "d">>, 99, "u2", "a", 0)

StartupDisks ==
    {[kind |-> "missing", doc |-> EmptyDict],
     [kind |-> "corrupt", doc |-> EmptyDict],
     [kind |-> "corrupt", doc |-> HeldCatalog]}

\* main, src/bot.py:511-514: app.bot_data["files"] = load_index()
InitStartup ==
    /\ user_data = [u \in Users |-> EmptyDict]
    /\ files_json \in StartupDisks
    /\ files = load_index(files_json)
    /\ Dispatch
    /\ out = <<>>
    /\ n_docs = 0
    /\ arrivals = [u \in Users |-> 0]
    /\ clock = 0
    /\ update_queue = <<>>
    /\ tmp = EmptyDict
    /\ image = NoImage
    /\ photo_tasks = <<>>

NextStartup ==
    \/ \E u \in Senders : SendsFewPhotos(u)
    \/ \E u \in Senders : ConvertsAgain(u)
    \/ ConvSteps
    \/ \E user_id \in ADMINS : SendsDelete(user_id)
    \/ Shown

SpecStartup == InitStartup /\ [][NextStartup]_vars

(* Inline queries over the same catalogs *)
InlineQueries == {<<>>, <<" ">>, <<"A">>, <<"1">>, <<" ", "X", " ">>, <<"x", " ", "b">>,
                  <<"5", "_", "B">>, <<"a", "1", "_">>, <<"z">>, <<"2">>, <<"5", "0">>,
                  <<"_", "a">>}

SendsInlineQuery(u) == Direct /\ \E query \in InlineQueries : inline_query_handler(u, query)

NextInline ==
    \/ \E u \in Senders : SendsInlineQuery(u)
    \/ Shown

SpecInline == InitFind /\ [][NextInline]_vars

(* The normaliser alone, over image files of many sizes *)
ImageEdges == {1, 531, 1062, 2105, 3000, 4000, 4001, 4210, 4248, 8000}

InitResize ==
    /\ user_data = [u \in Users |-> EmptyDict]
    /\ files = EmptyDict
    /\ files_json = [kind |-> "missing", doc |-> EmptyDict]
    /\ Dispatch
    /\ out = <<>>
    /\ n_docs = 0
    /\ arrivals = [u \in Users |-> 0]
    /\ clock = 0
    /\ update_queue = <<>>
    /\ tmp = EmptyDict
    /\ image \in {ImageFile(TRUE, w, h) : w \in ImageEdges, h \in ImageEdges}
                 \cup {ImageFile(FALSE, 1, 1)}
    /\ photo_tasks = <<>>

Normalises ==
    /\ image.pc = "file"
    /\ image' = ensure_image_dimensions(image)
    /\ UNCHANGED <<user_data, files, files_json, conv, out, n_docs, arrivals, clock,
                   update_queue, tmp, photo_tasks>>

NextResize == Normalises

SpecResize == InitResize /\ [][NextResize]_vars

----------------------------------------------------------------------------
(* Properties *)

Pending(u) == Get(user_data[u], "photos", <<>>)
Options(u) == Get(user_data[u], "pdf_options", EmptyDict)

\* the handler of the step just taken was entered by this step (the chat was
\* quiet before) and its first output is one of kinds
Began(kinds) == out = <<>> /\ out' # <<>> /\ out'[1].msg \in kinds

(* C1: a session never holds more than MAX_IMAGES pending images; the count
   equals the number of photos acknowledged since the session was empty and
   is the total each acknowledgement reports; a photo answered with the
   limit message leaves the count at MAX_IMAGES. *)
C1_PendingWithinCap ==
    \A u \in Users :
        /\ Len(Pending(u)) <= MAX_IMAGES
        /\ Len(Pending(u)) = arrivals[u]
        /\ \A k \in 1..Len(out) :
              out[k].to = u =>
                /\ out[k].msg = "received" => out[k].total = Len(Pending(u))
                /\ out[k].msg = "max_limit" => Len(Pending(u)) = MAX_IMAGES

C1_Witness ==
    \E u \in Users :
        /\ out = <<Reply(u, "max_limit")>>
        /\ Len(Pending(u)) = MAX_IMAGES

(* C2: a photo that photo_handler rejects (declared size above the limit, or
   the session at the cap) changes no session: pending images and options
   are what they were. *)
C2_RejectedPhotoKeepsSession ==
    [][Began({"too_big", "max_limit"}) => user_data' = user_data]_vars

C2_Witness ==
    \E u \in Users :
        /\ out = <<Reply(u, "max_limit")>>
        /\ Len(Pending(u)) = MAX_IMAGES
        /\ Has(Options(u), "page_size") /\ Options(u)["page_size"] = "LETTER"

FileIdsOf(paths) == [i \in 1..Len(paths) |-> paths[i].file_id]
InArrivalOrder(ids) == \A i \in 1..Len(ids) : ids[i] = i
HasDocument(o) == \E k \in 1..Len(o) : o[k].msg = "document"
Last(o) == o[Len(o)]

(* C3: the pending list is the acknowledged photos in the order they arrived
   (the user numbers them 1, 2, ...); while a conversion runs, the paths
   collected are the first images of the pending list in that order; a
   document sent has one page per pending image, page i made from image i. *)
C3_PagesInArrivalOrder ==
    /\ \A u \in Users : InArrivalOrder(Pending(u)) /\ Len(Pending(u)) = arrivals[u]
    /\ conv.pc # "idle" =>
          /\ conv.photos = Pending(conv.u)
          /\ FileIdsOf(conv.paths) = SubSeq(conv.photos, 1, Len(conv.paths))
    /\ \A k \in 1..Len(out) :
          out[k].msg = "document" =>
            /\ Len(out[k].pages) >= 1
            /\ InArrivalOrder(FileIdsOf(out[k].pages))
            /\ \A i \in 1..Len(out[k].pages) : out[k].pages[i].name = i
            /\ conv.pc = "save_index" => FileIdsOf(out[k].pages) = Pending(conv.u)

C3_Witness ==
    /\ conv.pc = "save_index"
    /\ \E k \in 1..Len(out) : out[k].msg = "document" /\ Len(out[k].pages) >= 2

ConvertTriggers == {"converting", "making_pdf"}

(* C4: a conversion asked for (command or button) on a session without
   pending images answers "no images" and does nothing else: no conversion
   starts, no document is sent, catalog and file on disk stay as they are. *)
C4_EmptySessionConvertsNothing ==
    [][(Began(ConvertTriggers) /\ Pending(out'[1].to) = <<>>) =>
          /\ out' = <<out'[1], Reply(out'[1].to, "no_images")>>
          /\ conv' = Idle
          /\ n_docs' = n_docs
          /\ files' = files /\ files_json' = files_json
          /\ user_data' = user_data]_vars

C4_Witness ==
    /\ Len(out) = 2 /\ out[1].msg = "making_pdf" /\ out[2].msg = "no_images"
    /\ files # EmptyDict

ConversionEnds == conv.pc # "idle" /\ conv'.pc = "idle"

(* C5: a conversion that ends without having sent the document leaves the
   session (pending images and options) as it was when the conversion
   was entered. *)
C5_FailedConversionKeepsSession ==
    [][(ConversionEnds /\ ~HasDocument(out')) =>
          /\ user_data'[conv.u] = conv.pre
          /\ Get(user_data'[conv.u], "photos", <<>>) = conv.photos]_vars

C5_Witness ==
    \E u \in Users :
        /\ conv = Idle /\ out # <<>> /\ Last(out) = Reply(u, "error_creating_pdf")
        /\ Len(Pending(u)) = 2
        /\ Has(user_data[u], "pdf_options")
        /\ Options(u) = [page_size |-> "A4", margin_mm |-> 1]

PerImageErrors == {"image_too_big", "downloaded_too_big", "cannot_process"}
ImageRejected ==
    /\ conv.pc # "idle"
    /\ Len(out') = Len(out) + 1
    /\ Last(out').msg \in PerImageErrors

(* C6 as claimed: an image that fails its per-image check is named by its
   1-based index and only its processing is aborted, the images after it
   are still processed. *)
C6_OthersStillProcessed ==
    [][ImageRejected =>
          /\ Last(out').index = conv.i
          /\ conv.i < Len(conv.photos) => conv'.pc # "idle"]_vars

(* C6 as amended: an image that fails its per-image check is named by its
   1-based index and ends the conversion: the images before it were
   processed, no later image is, nothing is sent or catalogued and the
   session stays as it was. *)
C6_RejectedImageEndsConversion ==
    [][ImageRejected =>
          /\ Last(out').index = conv.i
          /\ Len(conv.paths) = conv.i - 1
          /\ conv' = Idle
          /\ ~HasDocument(out')
          /\ n_docs' = n_docs
          /\ files' = files /\ files_json' = files_json
          /\ user_data' = user_data]_vars

C6_Witness ==
    \E u \in Users :
        /\ conv = Idle /\ out # <<>>
        /\ Last(out).msg \in PerImageErrors /\ Last(out).index = 1
        /\ Len(Pending(u)) = 2

TitleChanged(slug) ==
    slug \in DOMAIN files /\ slug \in DOMAIN files' /\ files'[slug].title # files[slug].title

(* C7: a rename changes an entry's title only when the requester is the
   entry's uploader or an administrator; a rename that is answered as done
   has set that title in the catalog, touched nothing else and saved the
   catalog; a refused rename leaves catalog and file as they were. *)
C7_RenameAuthorized ==
    [][/\ \A user_id \in Users, slug \in DOMAIN files, new_title \in NewTitles :
             (rename_cmd(user_id, slug, new_title) /\ TitleChanged(slug)) =>
                (user_id = files[slug].uploader \/ user_id \in ADMINS)
       /\ Began({"renamed"}) =>
             /\ out'[1].slug \in DOMAIN files
             /\ DOMAIN files' = DOMAIN files
             /\ files'[out'[1].slug] = [files[out'[1].slug] EXCEPT !.title = out'[1].title]
             /\ \A slug \in DOMAIN files \ {out'[1].slug} : files'[slug] = files[slug]
             /\ files_json' = [kind |-> "ok", doc |-> files']
       /\ Began({"only_uploader_or_admin"}) =>
             files' = files /\ files_json' = files_json]_vars

C7_Witness ==
    /\ Len(out) = 1 /\ out[1].msg = "renamed"
    /\ out[1].to \notin ADMINS
    /\ files[out[1].slug].uploader = out[1].to
    /\ files[out[1].slug].title \in NewTitles

(* C8: an entry disappears from the catalog only in a step handling an
   administrator's update; a delete answered as done has removed exactly
   that slug; a delete refused for want of admin rights leaves catalog and
   file as they were. *)
C8_DeleteAdminOnly ==
    [][/\ (\E slug \in DOMAIN files : slug \notin DOMAIN files') =>
             out' # <<>> /\ out'[1].to \in ADMINS
       /\ Began({"deleted"}) =>
             /\ out'[1].slug \in DOMAIN files
             /\ DOMAIN files' = DOMAIN files \ {out'[1].slug}
             /\ \A slug \in DOMAIN files' : files'[slug] = files[slug]
       /\ Began({"admin_only"}) =>
             files' = files /\ files_json' = files_json]_vars

C8_Witness ==
    /\ Len(out) = 1 /\ out[1].msg = "deleted"
    /\ out[1].slug \notin DOMAIN files
    /\ n_docs >= 1

(* C9: the step that answers a cancel has emptied the user's session and
   leaves no conversion running; a conversion asked for on a session without
   a "photos" key reports "no images". *)
C9_CancelEmptiesSession ==
    [][/\ Began({"cancelled"}) =>
             /\ user_data'[out'[1].to] = EmptyDict
             /\ conv' = Idle
       /\ (Began(ConvertTriggers) /\ ~Has(user_data[out'[1].to], "photos")) =>
             /\ Len(out') = 2 /\ out'[2].msg = "no_images"
             /\ conv' = Idle]_vars

C9_Witness ==
    \E u \in Users :
        /\ out = <<Reply(u, "cancelled")>>
        /\ user_data[u] = EmptyDict
        /\ files # EmptyDict

(* C10: when a conversion that sent its document returns, the user's session
   holds no pending image. *)
C10_SentConversionClearsPending ==
    [][(ConversionEnds /\ HasDocument(out')) =>
          ~Has(user_data'[conv.u], "photos")]_vars

C10_Witness ==
    \E u \in Users :
        /\ conv = Idle /\ HasDocument(out)
        /\ Last(out) = Reply(u, "stored")
        /\ Pending(u) = <<>>

CancelWaiting(u) ==
    \E k \in 1..Len(update_queue) : update_queue[k] = [kind |-> "cancel", u |-> u]

(* C11: once a cancel of the user has been received while that user's
   conversion is suspended before or in its send, the conversion sends no
   document and adds no entry to the catalog. *)
C11_CancelledConversionDiscarded ==
    [][(conv.pc \in {"get_file", "download", "reply_document"} /\ CancelWaiting(conv.u)) =>
          /\ ~HasDocument(out')
          /\ files' = files]_vars

MarginOf(d) == Get(Get(d, "pdf_options", EmptyDict), "margin_mm", DEFAULT_MARGIN_MM)
NegativeMargins == {arg \in MarginArgs : arg.kind = "int" /\ arg.n < 0}

(* C12: after every step the margin of every session is a natural number; a
   /margin or margin button that answers with a value has stored that value;
   /margin with a negative argument stores 0 and "Margin -1mm" on a margin
   of 0 leaves it at 0. *)
C12_MarginNonNegative ==
    [][/\ \A u \in Users : MarginOf(user_data'[u]) \in Nat
       /\ Began({"margin_set", "margin_stepped"}) =>
             out'[1].value = MarginOf(user_data'[out'[1].to])
       /\ \A u \in Users :
             /\ \A arg \in NegativeMargins : margin_cmd(u, arg) => MarginOf(user_data'[u]) = 0
             /\ (button_dec_margin(u) /\ MarginOf(user_data[u]) = 0) =>
                   MarginOf(user_data'[u]) = 0]_vars

C12_Witness ==
    \E u \in Users :
        /\ out = <<[to |-> u, msg |-> "margin_stepped", value |-> 0]>>
        /\ Has(Options(u), "margin_mm") /\ Options(u)["margin_mm"] = 0
        /\ Has(Options(u), "page_size")

(* C13: in every state the page size stored in a session is one of AUTO, A4,
   LETTER. *)
C13_PageSizeInEnum ==
    \A u \in Users :
        Has(Options(u), "page_size") => Options(u)["page_size"] \in {"AUTO", "A4", "LETTER"}

OptionsOf(d) == Get(d, "pdf_options", EmptyDict)

(* C14: a step that gives a session without options record its record leaves
   the record with both keys; the key the operation did not set holds its
   default (page size AUTO, margin 0), and /start sets both defaults. *)
C14_FirstTouchFillsDefaults ==
    [][\A u \in Users :
          (~Has(user_data[u], "pdf_options") /\ Has(user_data'[u], "pdf_options")) =>
             /\ DOMAIN OptionsOf(user_data'[u]) = {"page_size", "margin_mm"}
             /\ Began({"pagesize_set", "pagesize_chosen"}) =>
                   OptionsOf(user_data'[u])["margin_mm"] = DEFAULT_MARGIN_MM
             /\ Began({"margin_set", "margin_stepped"}) =>
                   OptionsOf(user_data'[u])["page_size"] = DEFAULT_PAGE_SIZE
             /\ Began({"welcome"}) => OptionsOf(user_data'[u]) = DefaultOptions]_vars

\* the step answered a set of `key` with one of kinds: the record holds the
\* value answered under key, nothing else in the session moved, and a value
\* that was already there leaves the session as it was
SetsKey(key, kinds) ==
    Began(kinds) =>
        LET u == out'[1].to
            before == OptionsOf(user_data[u])
            after == OptionsOf(user_data'[u])
        IN /\ DOMAIN after = DOMAIN before \cup {key}
           /\ after[key] = out'[1].value
           /\ \A k \in DOMAIN before \ {key} : after[k] = before[k]
           /\ DOMAIN user_data'[u] = DOMAIN user_data[u] \cup {"pdf_options"}
           /\ Get(user_data'[u], "photos", <<>>) = Pending(u)
           /\ (Has(before, key) /\ before[key] = out'[1].value) => user_data' = user_data

(* C15: /pagesize V stores V under page_size and /margin M stores the clamped
   M under margin_mm, overwriting that key and touching no other; the same
   command issued again (the key already holds the value) changes nothing. *)
C15_SetOptionIdempotent ==
    [][/\ SetsKey("page_size", {"pagesize_set"})
       /\ SetsKey("margin_mm", {"margin_set"})]_vars

C15_Witness ==
    \E u \in Users :
        /\ out = <<[to |-> u, msg |-> "pagesize_set", value |-> "LETTER"]>>
        /\ Options(u) = [page_size |-> "LETTER", margin_mm |-> 1]
        /\ Len(Pending(u)) = 1

DocumentSent == conv.pc = "reply_document" /\ HasDocument(out')

(* C16: a document sent for a session whose margin is M > 0 was encoded with
   a border of M millimetres on its pages. *)
C16_MarginHonoured ==
    [][(DocumentSent /\ MarginOf(user_data[conv.u]) > 0) =>
          Last(out').border = MarginOf(user_data[conv.u])]_vars

PageSizeOf(d) == Get(OptionsOf(d), "page_size", DEFAULT_PAGE_SIZE)

(* C17: the page size asked of the encoder for a document is fixed by the
   session's page size alone: 210x297 mm for A4, 216x279 mm for LETTER, none
   for AUTO (each page then takes its image's size), whatever the images. *)
C17_GeometryFromPageSize ==
    [][DocumentSent =>
          /\ PageSizeOf(user_data[conv.u]) = "A4" => Last(out').pagesize = <<210, 297>>
          /\ PageSizeOf(user_data[conv.u]) = "LETTER" => Last(out').pagesize = <<216, 279>>
          /\ PageSizeOf(user_data[conv.u]) = "AUTO" => Last(out').pagesize = <<>>]_vars

C17_Witness ==
    /\ conv.pc = "save_index"
    /\ PageSizeOf(user_data[conv.u]) = "LETTER"
    /\ Last(out).msg = "document" /\ Last(out).pagesize = <<216, 279>>
    /\ Len(Last(out).pages) = 2

WithinLimit(paths) == \A i \in 1..Len(paths) : paths[i].st_size <= MAX_FILE_SIZE_BYTES

(* C18: every image a conversion has collected for the encoder, and every
   page of every document sent, measured at most MAX_FILE_SIZE_BYTES on disk
   after its download, whatever size the platform declared for it (none, 0,
   or a number within the limit). *)
C18_NoOversizedPage ==
    /\ conv.pc # "idle" => WithinLimit(conv.paths)
    /\ \A k \in 1..Len(out) : out[k].msg = "document" => WithinLimit(out[k].pages)

C18_Witness ==
    /\ conv = Idle /\ out # <<>>
    /\ Last(out).msg = "downloaded_too_big" /\ Last(out).index = 2
    /\ ~HasDocument(out)

\* a rename or delete that changed the catalog has returned, or the put of a
\* conversion has come back from its save
MutationCompletes ==
    \/ conv = Idle /\ files' # files
    \/ conv.pc = "save_index" /\ conv'.pc = "idle"

(* C19: when a command that changed the catalog has completed, the document
   on disk is the whole in-memory catalog, also when its save step failed. *)
C19_PersistedEqualsMemory ==
    [][MutationCompletes =>
          files_json'.kind = "ok" /\ files_json'.doc = files']_vars

(* C21: in every state every catalog entry's title has at most 128
   characters. *)
C21_TitleBounded ==
    \A slug \in DOMAIN files : Len(files[slug].title) <= 128

\* the step is the insert of index_pdf (made when reply_document has returned
\* a file handle)
PutDone == conv.pc = "reply_document" /\ conv'.pc = "save_index"

(* C22: every put adds its entry under a slug that was not a key of the
   catalog: the catalog has one entry more and every entry it had is as it
   was. *)
C22_PutNeverOverwrites ==
    [][PutDone =>
          /\ Cardinality(DOMAIN files') = Cardinality(DOMAIN files) + 1
          /\ \A slug \in DOMAIN files : slug \in DOMAIN files' /\ files'[slug] = files[slug]]_vars

\* the generic failure text of src/bot.py:314
GenericFailures == {"error_creating_pdf"}

(* C23: an exception that left a handler (it reached error_handler) was
   answered to the user with a generic failure message. *)
C23_FailureAnswered ==
    \A k \in 1..Len(out) :
        out[k].msg = "logged_handler_error" =>
            \E j \in 1..Len(out) : out[j].to = out[k].to /\ out[j].msg \in GenericFailures

\* the long and the short edge of a size
LongOf(size) == Max(size[1], size[2])
ShortOf(size) == IF size[1] >= size[2] THEN size[2] ELSE size[1]
\* the computed edge that belongs to the short edge of the original
ShortTarget(im) == IF im.orig[1] >= im.orig[2] THEN im.target[2] ELSE im.target[1]
LongTarget(im) == IF im.orig[1] >= im.orig[2] THEN im.target[1] ELSE im.target[2]
Oversized(im) ==
    /\ im.pc \in {"returned_true", "returned_false"}
    /\ im.decodable
    /\ LongOf(im.orig) > MAX_DIMENSION_PX
\* | computed - short * MAX_DIMENSION_PX / long |, multiplied by long
ShortEdgeError(im) ==
    LET d == ShortTarget(im) * LongOf(im.orig) - ShortOf(im.orig) * MAX_DIMENSION_PX
    IN IF d < 0 THEN -d ELSE d

(* C24 as stated: for an image whose long edge exceeds MAX_DIMENSION_PX the
   computed target has a long edge of MAX_DIMENSION_PX or MAX_DIMENSION_PX - 1
   and a short edge that differs by less than one pixel from
   short * MAX_DIMENSION_PX / long. *)
C24_ShortEdgeWithinOnePixel ==
    Oversized(image) =>
        /\ LongTarget(image) \in {MAX_DIMENSION_PX, MAX_DIMENSION_PX - 1}
        /\ ShortEdgeError(image) < LongOf(image.orig)

(* C24 amended: the long edge of the target is MAX_DIMENSION_PX or
   MAX_DIMENSION_PX - 1 and the short edge differs by at most one pixel from
   short * MAX_DIMENSION_PX / long, never exceeding it. *)
C24_ShortEdgeAtMostOnePixel ==
    Oversized(image) =>
        /\ LongTarget(image) \in {MAX_DIMENSION_PX, MAX_DIMENSION_PX - 1}
        /\ ShortEdgeError(image) <= LongOf(image.orig)
        /\ ShortTarget(image) * LongOf(image.orig) <= ShortOf(image.orig) * MAX_DIMENSION_PX

\* a 4210 x 2105 image was resized: its exact target is 4000 x 2000
C24_Witness ==
    /\ image.pc = "returned_true"
    /\ image.orig = <<4210, 2105>>
    /\ image.size = <<3999, 1999>>


\* hay contains needle, letters compared without regard to case
ContainsCI(hay, needle) ==
    \E i \in 0..(Len(hay) - Len(needle)) :
        Lower(SubSeq(hay, i + 1, i + Len(needle))) = Lower(needle)
\* the catalog entries a query text matches
Matching(text) ==
    {slug \in DOMAIN files : ContainsCI(slug, text) \/ ContainsCI(files[slug].title, text)}
\* the reply lists exactly these slugs, each once and with its title
Lists(reply, slugs) ==
    /\ reply.msg = "search_results"
    /\ {reply.lines[i][1] : i \in 1..Len(reply.lines)} = slugs
    /\ Len(reply.lines) = Cardinality(slugs)
    /\ \A i \in 1..Len(reply.lines) : reply.lines[i][2] = files[reply.lines[i][1]].title
\* the first n of the matching entries, in catalog order
Earliest(matches, n) ==
    {slug \in matches :
        Cardinality({m \in matches : files[m].time < files[slug].time}) < n}

(* C25: /find with a query text answers with exactly the catalog entries whose
   slug or title contains the text, letters compared without regard to case,
   cut to the first 50 of them; it answers 'nothing found' exactly when no
   entry matches. *)
C25_FindReturnsMatches ==
    [][\A u \in Users, args \in FindArgs \ {<<>>} :
          find_cmd(u, args) =>
              LET matches == Matching(Join(<<" ">>, args))
              IN /\ Len(out') = 1
                 /\ out'[1].to = u
                 /\ (out'[1].msg = "nothing_found") <=> (matches = {})
                 /\ matches # {} => Lists(out'[1], Earliest(matches, 50))]_vars

\* a search that matched more than 50 entries was answered with 50 of them,
\* and one matched an entry by its slug alone
C25_Witness ==
    /\ out # <<>>
    /\ out[1].msg = "search_results"
    /\ Len(out[1].lines) = 50
    /\ Cardinality(DOMAIN files) = 52
C25_WitnessSlugOnly ==
    /\ out # <<>>
    /\ out[1].msg = "search_results"
    /\ \E i \in 1..Len(out[1].lines) : out[1].lines[i][2] = <<"X", " ", "b">>
    /\ Len(out[1].lines) < Cardinality(DOMAIN files)


\* the entries this step created or replaced
PutBy(slug) == slug \in DOMAIN files' /\ (slug \notin DOMAIN files \/ files'[slug] # files[slug])

(* C26: a catalog entry is created only by the step in which the send of the
   encoded PDF returned with a file handle: the PDF file had been written,
   the document goes out in that step, the entry carries the handle the
   platform returned, and every entry's handle is that of a completed send. *)
C26_IndexedAfterSend ==
    [][/\ \A slug \in DOMAIN files' :
             PutBy(slug) =>
                 /\ conv.pc = "reply_document"
                 /\ PdfFile \in tmp[conv.tmpdir]
                 /\ out' = Append(out, Last(out'))
                 /\ Last(out').msg = "document"
                 /\ Last(out').file_id # 0
                 /\ files'[slug].file_id = Last(out').file_id
                 /\ conv'.pc = "save_index"
       /\ \A slug \in DOMAIN files' : files'[slug].file_id \in 1..n_docs']_vars

\* the second document was sent and its entry has just been put
C26_Witness ==
    /\ conv.pc = "save_index"
    /\ n_docs = 2
    /\ \E slug \in DOMAIN files : files[slug].file_id = 2
    /\ Last(out).msg = "document"


\* the tasks of u whose photo was acknowledged
Accepted(u) ==
    {k \in 1..Len(photo_tasks) : photo_tasks[k].u = u /\ photo_tasks[k].reply.msg = "received"}
Occurrences(list, x) == Cardinality({i \in 1..Len(list) : list[i] = x})

(* C27: however the photo_handler invocations of one user interleave at
   their suspension points, every image acknowledged is in the pending list
   exactly once, the list has grown by one per acknowledgement, no
   acknowledgement reports a total beyond the list, and the list never
   exceeds MAX_IMAGES. *)
C27_NoAppendLost ==
    \A u \in Senders :
        /\ Len(Pending(u)) <= MAX_IMAGES
        /\ Len(Pending(u)) = arrivals[u]
        /\ \A k \in Accepted(u) :
              /\ Occurrences(Pending(u), photo_tasks[k].file_id) = 1
              /\ photo_tasks[k].reply.total <= Len(Pending(u))

\* two handlers are suspended in their replies together, the one created
\* second having run first; one image short of the cap, the first to run
\* was accepted and the other refused
C27_Witness ==
    /\ Len(photo_tasks) >= 2
    /\ photo_tasks[1].pc = "reply_text"
    /\ photo_tasks[2].pc = "reply_text"
    /\ photo_tasks[2].reply.msg = "received"
    /\ photo_tasks[1].reply.msg = "max_limit"
    /\ Len(Pending("u1")) = MAX_IMAGES


(* C28: whenever convert_to_pdf returns after it made its temporary
   directory -- the document sent, an image rejected, or an exception in
   download, encoding or sending -- that directory and the files in it are
   gone at the return; while the conversion runs its directory is the only
   one, and none exists while no conversion runs. *)
C28_TmpdirRemoved ==
    [][/\ ConversionEnds => (conv.tmpdir \in DOMAIN tmp /\ conv.tmpdir \notin DOMAIN tmp')
       /\ conv'.pc # "idle" => DOMAIN tmp' = {conv'.tmpdir}
       /\ conv'.pc = "idle" => tmp' = EmptyDict]_vars

\* the second image of a batch was rejected after the first had been
\* downloaded into the directory; the conversion has returned
C28_Witness ==
    /\ conv = Idle
    /\ out # <<>>
    /\ Last(out).msg \in PerImageErrors
    /\ Last(out).index = 2
    /\ tmp = EmptyDict


\* the step in which the normaliser returned False for the image downloaded
DecodeFails ==
    \E st_size \in DiskSizes, im \in DownloadedImages, encodes \in BOOLEAN :
        /\ conv.pc = "download"
        /\ ~DiskTooBig(st_size)
        /\ ensure_image_dimensions(im).pc = "returned_false"
        /\ downloaded(st_size, im, encodes)

(* C29: when ensure_image_dimensions returns False for a pending image the
   conversion ends there: the encoder has not run and does not run, no
   document is sent, the catalog and its file stay as they are, and the user
   is told which image could not be processed and to try a different one. *)
C29_UndecodableStopsConversion ==
    [][DecodeFails =>
          /\ conv' = Idle
          /\ PdfFile \notin tmp[conv.tmpdir]
          /\ ~HasDocument(out')
          /\ n_docs' = n_docs
          /\ files' = files /\ files_json' = files_json
          /\ out' = Append(out, ImageReply(conv.u, "cannot_process", conv.i))]_vars

\* the second image of a batch could not be processed: nothing was sent or
\* catalogued and both images are still pending
C29_Witness ==
    /\ conv = Idle
    /\ out # <<>>
    /\ Last(out) = ImageReply("u1", "cannot_process", 2)
    /\ ~HasDocument(out)
    /\ Len(Pending("u1")) = 2


(* C30: /start empties the pending list and keeps the options: afterwards
   the session holds no pending images and its options record is the record
   it had before, or the defaults (AUTO, 0) when it had none; the sessions of
   the other users and the catalog are left alone. *)
C30_StartKeepsOptions ==
    [][\A u \in Users :
          start(u) =>
              /\ Pending(u)' = <<>>
              /\ ~Has(user_data'[u], "photos")
              /\ Has(user_data'[u], "pdf_options")
              /\ user_data'[u]["pdf_options"] =
                     IF Has(user_data[u], "pdf_options")
                     THEN user_data[u]["pdf_options"] ELSE DefaultOptions
              /\ \A v \in Users \ {u} : user_data'[v] = user_data[v]
              /\ files' = files /\ files_json' = files_json]_vars

\* /start has answered on a session whose page size had been set to A4:
\* the pending list is empty and the page size is still A4
C30_Witness ==
    /\ out = <<[to |-> "u1", msg |-> "welcome"]>>
    /\ Pending("u1") = <<>>
    /\ Has(Options("u1"), "page_size")
    /\ Options("u1")["page_size"] = "A4"


(* C31: the uploader recorded in a catalog entry is the user whose session
   was converted, whether the conversion was started by /convert or by the
   'convert' button; that user may therefore rename the entry. *)
C31_UploaderIsSessionUser ==
    [][\A slug \in DOMAIN files' :
          PutBy(slug) =>
              /\ files'[slug].uploader = conv.u
              /\ MayRename(files'[slug], conv.u)]_vars


Elements(list) == {list[i] : i \in 1..Len(list)}
\* the images that are pages of a document this step sends or has sent
PagesSent(o) ==
    UNION {Elements(FileIdsOf(o[k].pages)) : k \in {j \in 1..Len(o) : o[j].msg = "document"}}

(* C32: with no cancel and no /start, an acknowledged image stays pending
   until the step in which a conversion of its user returns having sent a
   document with that image as a page; a photo that arrives while the
   conversion is in flight is acknowledged after it and is pending then. *)
C32_AcceptedImageNotLost ==
    [][\A u \in Users :
          \A id \in Elements(Pending(u)) :
              \/ id \in Elements(Pending(u)')
              \/ /\ ConversionEnds /\ conv.u = u
                 /\ id \in PagesSent(out')]_vars

\* the photo sent second, while the conversion of the first was in flight,
\* was acknowledged after the document had gone out and is pending
C32_Witness ==
    /\ n_docs = 1
    /\ Pending("u1") = <<2>>
    /\ out = <<[to |-> "u1", msg |-> "received", total |-> 1]>>
    /\ update_queue = <<>>


(* C33: the 'show_settings' button is answered, on every session the
   commands, buttons and conversions leave, with the page size and the
   margin the next conversion would use. *)
C33_ShowSettingsSucceeds ==
    [][\A u \in Users :
          button_show_settings(u) =>
              /\ out'[1].msg = "current_settings"
              /\ out'[1].page_size =
                     Get(OptionsOf(user_data[u]), "page_size", DEFAULT_PAGE_SIZE)
              /\ out'[1].margin_mm = MarginOf(user_data[u])]_vars


ConversionBegins == conv.pc = "idle" /\ conv'.pc # "idle"

(* C34: a conversion that sent its document and a cancel leave the session
   without options record and without pending images; a conversion entered
   on a session without options record works with page size AUTO and margin
   0, and the document it sends is encoded without a page size. *)
C34_OptionsGoWithSession ==
    [][/\ (ConversionEnds /\ HasDocument(out')) => user_data'[conv.u] = EmptyDict
       /\ \A u \in Users : cancel(u) => user_data'[u] = EmptyDict
       /\ (ConversionBegins /\ ~Has(user_data[conv'.u], "pdf_options")) =>
             /\ conv'.page_size = DEFAULT_PAGE_SIZE
             /\ conv'.margin_mm = DEFAULT_MARGIN_MM
       /\ (DocumentSent /\ ~Has(user_data[conv.u], "pdf_options")) =>
             Last(out').pagesize = PagesizeArg(DEFAULT_PAGE_SIZE)]_vars

\* the second conversion of a user has ended: its document was encoded as A4,
\* so the page size was set again after the first conversion had removed it,
\* and the session is empty once more
C34_Witness ==
    /\ conv = Idle
    /\ n_docs = 2
    /\ \E k \in 1..Len(out) :
         /\ out[k].msg = "document"
         /\ out[k].to = "u1"
         /\ out[k].pagesize = PagesizeArg("A4")
    /\ \A slug \in DOMAIN files : files[slug].uploader = "u1"
    /\ Cardinality(DOMAIN files) = 2
    /\ user_data["u1"] = EmptyDict

(* C35: a catalog command of a requester who may not act on slug S answers
   as it would on the catalog that differs only in lacking S: a non-admin's
   /delete S gives the reply it gives without S and changes neither the
   catalog nor the file, and a /rename S by a user who is neither the
   uploader of S nor an admin gives the reply it gives without S. *)
C35_ExistenceNotRevealed ==
    [][\A user_id \in Users \ ADMINS :
         \A slug \in DOMAIN files :
             /\ delete_cmd(user_id, slug, FALSE) =>
                   /\ out'[1].msg = delete_reply(Del(files, slug), user_id, slug, FALSE)
                   /\ UNCHANGED <<files, files_json>>
             /\ \A new_title \in NewTitles :
                   (rename_cmd(user_id, slug, new_title)
                      /\ files[slug].uploader # user_id) =>
                   out'[1].msg = rename_reply(Del(files, slug), user_id, slug, new_title)]_vars


(* C36: for a decodable image of width and height at least 1 whose long edge
   exceeds MAX_DIMENSION_PX, the target size ensure_image_dimensions computes
   has both dimensions at least 1, and the normaliser returns True. *)
C36_TargetAtLeastOnePixel ==
    (/\ image.pc \in {"returned_true", "returned_false"}
     /\ image.decodable
     /\ image.orig[1] >= 1 /\ image.orig[2] >= 1
     /\ Max(image.orig[1], image.orig[2]) > MAX_DIMENSION_PX) =>
        /\ image.target[1] >= 1
        /\ image.target[2] >= 1
        /\ image.pc = "returned_true"


\* the conversion ends with its document sent and without the slug reply:
\* the reply carried no handle, or save_index raised
IndexingFails ==
    /\ ConversionEnds
    /\ HasDocument(out')
    /\ Last(out').msg # "stored"

\* the catalog holds the entry of the document sent last
HoldsNewEntry(index, n) == \E slug \in DOMAIN index : index[slug].file_id = n

(* C37: a conversion whose indexing fails after the document was sent sends
   no error message and clears the session; the catalog in memory holds the
   new entry exactly when the failure was that of the save, after the
   insert. *)
C37_IndexingFailureIsSilent ==
    [][IndexingFails =>
          /\ \A k \in 1..Len(out') : out'[k].msg # "error_creating_pdf"
          /\ user_data'[conv.u] = EmptyDict
          /\ HoldsNewEntry(files', n_docs') <=> conv.pc = "save_index"
          /\ conv.pc = "reply_document" => files' = files]_vars

\* the save of the second conversion raised after the insert: two entries in
\* memory, the file as the first save left it, no slug reply, session cleared
C37_Witness ==
    /\ conv = Idle
    /\ n_docs = 2
    /\ HasDocument(out)
    /\ Last(out).msg = "document"
    /\ HoldsNewEntry(files, 2)
    /\ files_json.kind = "ok"
    /\ ~HoldsNewEntry(files_json.doc, 2)
    /\ user_data["u1"] = EmptyDict


\* the catalog entries an inline query text matches, most recent first
InlineMatching(q) ==
    LET Test(slug) == In(q, slug) \/ In(q, Lower(InlineTitle(slug, files[slug])))
    IN SelectSeq(ItemsRecentFirst(files), Test)

(* C38: the answer to an inline query with non-empty text lists the catalog
   entries whose slug or title contains the text, most recent first, the
   first 50 of them when there are more, wherever in the catalog they are. *)
C38_InlineReturnsMatches ==
    [][\A u \in Users : \A query \in InlineQueries :
          (inline_query_handler(u, query) /\ Strip(query) # <<>>) =>
              [i \in 1..Len(out'[1].results) |-> out'[1].results[i][1]]
                 = Slice(InlineMatching(Lower(Strip(query))), INLINE_SHOWN)]_vars


\* the command that changed the catalog answered that it did: its save returned
SaveReturned == Last(out').msg \in {"stored", "renamed", "deleted"}

\* an entry of the damaged file is in the catalog d
HoldsHeld(d) == \E slug \in DOMAIN d : Has(HeldCatalog, slug) /\ d[slug] = HeldCatalog[slug]

(* C39: started on a catalog file that is missing or cannot be parsed, the
   bot has an empty catalog in memory until the first put; no entry the
   damaged file held ever comes into the catalog in memory; and the first
   (and every) catalog mutation whose save returns leaves on disk a readable
   document that is the catalog in memory, without what the file held. *)
C39_UnreadableFileStartsEmpty ==
    /\ [](clock = 0 => files = EmptyDict)
    /\ [](~HoldsHeld(files))
    /\ [][(MutationCompletes /\ SaveReturned) =>
            /\ files_json' = [kind |-> "ok", doc |-> files']
            /\ ~HoldsHeld(files_json'.doc)]_vars

\* started on the damaged file, the first conversion has put its entry into
\* the empty catalog and is about to save: the file still holds the old text,
\* which the save will replace
C39_Witness ==
    /\ conv.pc = "save_index"
    /\ n_docs = 1
    /\ files_json = [kind |-> "corrupt", doc |-> HeldCatalog]
    /\ Cardinality(DOMAIN files) = 1
    /\ ~HoldsHeld(files)
====
